---- MODULE Spec2Model ----
(***************************************************************************)
(* A model of throttle-ro's ThrottlesService (src/src/lib.rs): a           *)
(* fixed-window attempt counter kept in an external TTL cache.  Every      *)
(* cache call is one atomic step; hit is three cache calls (expire, get,   *)
(* set), so other callers and the clock may act between them.              *)
(***************************************************************************)
EXTENDS Integers, Sequences, FiniteSets, TLC

\* ---------------------------------------------------------------- bounds
\* the longest window, in ticks of the cache's clock
MaxPeriod == 2
\* the highest attempt count a hit may write
MaxCount == 3
\* limits range up to MaxCount - 1, so that a count can pass the limit
MaxLimit == MaxCount - 1

Callers == {"c1", "c2"}
Ips == {<<"b">>, <<"a", "b">>}
Prefixes == {<<>>, <<"a">>}

\* Option<T>: None, or Some(x)
None == <<>>
Some(x) == <<x>>

VARIABLES
    service,  \* the ThrottlesService each caller constructed
    cache,    \* the shared cache: key -> entry
    pc,       \* where each caller is inside hit ("idle": not inside)
    expire,   \* hit's local `expire`
    value,    \* what hit's get_value call returned
    last,     \* the call that has just returned: who, which, and what it
              \* returned (hit: the time-to-live written; remove: the count
              \* deleted); NoCall once anything else has happened
    age,      \* per key: ticks since the entry was created
    win,      \* per key: the period of the service whose hit created the entry
    gone,     \* per key: count and age of the entry that last expired
    hits,     \* per caller: hits completed since its key was last absent
    raced,    \* some hit or remove ran while another caller was inside hit
              \* or, where `allowed` is tracked, between its can_go and its hit
    slow,     \* the clock ticked while a caller was inside hit
    recent,   \* hits begun in each of the last `period` instants, the current
              \* one first (<<>>: not tracked)
    allowed   \* the callers whose last can_go returned true and who have not
              \* begun a hit since (Untracked: the callers hit unasked)

vars == <<service, cache, pc, expire, value, last, age, win, gone, hits,
          raced, slow, recent, allowed>>

\* ------------------------------------------------------- ThrottlesService
\* The struct: ip, max_attempts, period, prefix.
ThrottlesService ==
    [ip : Ips, max_attempts : 0..MaxLimit, period : 1..MaxPeriod, prefix : Prefixes]

\* fn new: stores its four arguments.
new(ip, max_attempts, period, prefix) ==
    [ip |-> ip, max_attempts |-> max_attempts, period |-> period, prefix |-> prefix]

\* key that leaves the prefix out
key_ip(self) == self.ip

\* fn key: format!("{}{}", self.prefix, self.ip)
key(self) == self.prefix \o self.ip

Keys == {key(s) : s \in ThrottlesService}

\* ------------------------------------------------------------------ Cache
\* The cache collaborator: an entry is absent, or holds a u32 and a remaining
\* time-to-live of at least one tick.
NoEntry == [value |-> 0, ttl |-> 0]

Present(ch, k) == ch[k].ttl > 0

CacheGet(ch, k) == IF Present(ch, k) THEN Some(ch[k].value) ELSE None

CacheExpire(ch, k) == IF Present(ch, k) THEN Some(ch[k].ttl) ELSE None

CacheSet(ch, k, v, ttl) ==
    [ch EXCEPT ![k] = IF ttl > 0 THEN [value |-> v, ttl |-> ttl] ELSE NoEntry]

CacheRemove(ch, k) == [ch EXCEPT ![k] = NoEntry]

\* What a set that returns Err may leave behind.  Neither the source nor the
\* cache's contract says: the entry is as before, or the write took effect
\* before the error arose.
CacheSetErr(ch, k, v, ttl) == {ch, CacheSet(ch, k, v, ttl)}

\* What a remove that returns Err may leave behind: the entry as before, or no
\* entry.
CacheRemoveErr(ch, k) == {ch, CacheRemove(ch, k)}

\* One tick of the cache's clock: every remaining time-to-live shrinks by one
\* and an entry whose time-to-live reaches 0 is gone.
CacheTick(ch) ==
    [k \in DOMAIN ch |->
        IF ch[k].ttl > 1 THEN [ch[k] EXCEPT !.ttl = @ - 1] ELSE NoEntry]

\* ------------------------------------------------------------ the methods
\* fn get_value: cache.get::<u32>(&self.key())
get_value(self, ch) == CacheGet(ch, key(self))

\* Option::unwrap_or
unwrap_or(opt, default) == IF opt = None THEN default ELSE opt[1]

\* can_go with <= for <
can_go_le(self, ch) ==
    LET v == unwrap_or(get_value(self, ch), 0)
    IN  v <= self.max_attempts

\* can_go taking an absent entry for a full one
can_go_full(self, ch) ==
    LET v == unwrap_or(get_value(self, ch), self.max_attempts)
    IN  v < self.max_attempts

\* fn can_go
can_go(self, ch) ==
    LET v == unwrap_or(get_value(self, ch), 0)
    IN  v < self.max_attempts

\* get_expire with no default: None => Duration::ZERO
get_expire_zero(self, ch) ==
    LET ex == CacheExpire(ch, key(self))
    IN  IF ex = None THEN 0 ELSE ex[1]

\* get_expire that always starts a full window
get_expire_period(self, ch) == self.period

\* fn get_expire
get_expire(self, ch) ==
    LET ex == CacheExpire(ch, key(self))
    IN  IF ex = None THEN self.period ELSE ex[1]

\* v + 1 on u32.  HitGetExpire keeps the counts of this model at MaxCount or
\* less, far from u32::MAX, where v + 1 would overflow (and beyond TLC's
\* integers).
Add1(v) == v + 1

\* hit that writes back the count it read
hit_value_same(v) == IF v = None THEN 1 ELSE v[1]

\* hit with - for +
hit_value_minus(v) == IF v = None THEN 1 ELSE v[1] - 1

\* hit that counts an attempt twice
hit_value_two(v) == IF v = None THEN 1 ELSE v[1] + 2

\* the match of fn hit: the value written for what get_value returned
hit_value(v) == IF v = None THEN 1 ELSE Add1(v[1])

\* unwrap that drops the error: the call returns as if the cache had succeeded
unwrap_ignored(res) == "returned"

\* Result::unwrap on what cache.set and cache.remove return: Ok(()) returns,
\* Err(_) panics
unwrap(res) == IF res = "Ok" THEN "returned" ELSE "panicked"

\* remove that only clears a blocked key
remove_blocked(self, ch) ==
    IF can_go(self, ch) THEN ch ELSE CacheRemove(ch, key(self))

\* fn remove: cache.remove(&self.key())
remove(self, ch) == CacheRemove(ch, key(self))

\* ------------------------------------------------------------------ ghosts
InHit(c) == pc[c] # "idle"

\* callers other than c that are inside hit on key k
OthersInHit(c, k) == {d \in Callers \ {c} : InHit(d) /\ key(service[d]) = k}

AnyInHit(k) == {d \in Callers : InHit(d) /\ key(service[d]) = k}

StoredCount(k) == IF Present(cache, k) THEN cache[k].value ELSE 0

\* The highest count that the hits in progress on key k can still write: the
\* highest count stored or held by a caller, plus one per hit in progress.
Reach(k) ==
    LET held == {StoredCount(k)} \cup {unwrap_or(value[d], 0) : d \in AnyInHit(k)}
    IN  (CHOOSE m \in held : \A x \in held : x <= m) + Cardinality(AnyInHit(k))

\* hits[c] is -1 when a hit was in progress on c's key while the key expired
\* or was removed: the hits since then are not those of one window
Tainted(k) == \E c \in Callers : key(service[c]) = k /\ hits[c] < 0

\* the hits completed on key k by the callers cs
RECURSIVE SumHits(_, _)
SumHits(k, cs) ==
    IF cs = {} THEN 0
    ELSE LET c == CHOOSE x \in cs : TRUE
         IN  (IF key(service[c]) = k THEN hits[c] ELSE 0) + SumHits(k, cs \ {c})

RECURSIVE SumSeq(_)
SumSeq(q) == IF q = <<>> THEN 0 ELSE Head(q) + SumSeq(Tail(q))

NoneGone == [value |-> 0, age |-> 0]

NoCall == [who |-> "", op |-> "", val |-> None]

Untracked == {"untracked"}

\* callers other than c on key k that are inside hit or hold a can_go that
\* returned true
OthersBusy(c, k) ==
    OthersInHit(c, k) \cup
        {d \in Callers \ {c} : d \in allowed /\ key(service[d]) = k}

\* ------------------------------------------------------------------- Init
\* The services the callers construct, all with one limit and one window and,
\* through different prefixes and ips, one key: c1 throttles ip "ab" under the
\* empty prefix, c2 throttles ip "b" under the prefix "a".
Services ==
    {f \in [Callers -> ThrottlesService] :
        /\ f["c1"] = new(<<"a", "b">>, f["c1"].max_attempts, f["c1"].period, <<>>)
        /\ f["c2"].max_attempts = f["c1"].max_attempts
        /\ f["c2"].period = f["c1"].period
        /\ f["c2"].ip # f["c1"].ip
        /\ key(f["c2"]) = key(f["c1"])}

InitBut(srv, rec, alw) ==
    /\ service = srv
    /\ cache = [k \in Keys |-> NoEntry]
    /\ pc = [c \in Callers |-> "idle"]
    /\ expire = [c \in Callers |-> 0]
    /\ value = [c \in Callers |-> None]
    /\ last = NoCall
    /\ age = [k \in Keys |-> 0]
    /\ win = [k \in Keys |-> 0]
    /\ gone = [k \in Keys |-> NoneGone]
    /\ hits = [c \in Callers |-> 0]
    /\ raced = FALSE
    /\ slow = FALSE
    /\ recent = rec
    /\ allowed = alw

Init == \E srv \in Services : InitBut(srv, <<>>, Untracked)

\* ---------------------------------------------------------------- actions
\* can_go that counts the check itself as an attempt
CanGo_counting(c) ==
    LET k == key(service[c]) IN
    /\ pc[c] = "idle"
    /\ last' = [who |-> c, op |-> "can_go", val |-> Some(can_go(service[c], cache))]
    /\ cache' = IF StoredCount(k) < MaxCount
                THEN CacheSet(cache, k, hit_value(get_value(service[c], cache)),
                              get_expire(service[c], cache))
                ELSE cache
    /\ UNCHANGED <<service, pc, expire, value, age, win, gone, hits, raced, slow,
                   recent, allowed>>

\* service.can_go(&cache)
CanGo(c) ==
    LET go == can_go(service[c], cache) IN
    /\ pc[c] = "idle"
    /\ last' = [who |-> c, op |-> "can_go", val |-> Some(go)]
    /\ allowed' = IF allowed = Untracked THEN allowed
                  ELSE IF go THEN allowed \cup {c} ELSE allowed \ {c}
    /\ raced' = (raced \/ (allowed # Untracked /\ go
                              /\ OthersBusy(c, key(service[c])) # {}))
    /\ UNCHANGED <<service, cache, pc, expire, value, age, win, gone, hits,
                   slow, recent>>

\* service.get_expire(&cache)
GetExpire(c) ==
    /\ pc[c] = "idle"
    /\ last' = [who |-> c, op |-> "get_expire",
                val |-> Some(get_expire(service[c], cache))]
    /\ UNCHANGED <<service, cache, pc, expire, value, age, win, gone, hits,
                   raced, slow, recent, allowed>>

\* hit, first cache call: let expire = self.get_expire(cache)
HitGetExpire(c) ==
    LET k == key(service[c]) IN
    /\ pc[c] = "idle"
    /\ Reach(k) < MaxCount
    /\ pc' = [pc EXCEPT ![c] = "got_expire"]
    /\ expire' = [expire EXCEPT ![c] = get_expire(service[c], cache)]
    /\ raced' = (raced \/ OthersBusy(c, k) # {})
    /\ last' = NoCall
    /\ recent' = IF recent = <<>> THEN recent ELSE [recent EXCEPT ![1] = @ + 1]
    /\ allowed' = IF allowed = Untracked THEN allowed ELSE allowed \ {c}
    /\ UNCHANGED <<service, cache, value, age, win, gone, hits, slow>>

\* hit, second cache call: match self.get_value(cache)
HitGetValue(c) ==
    /\ pc[c] = "got_expire"
    /\ pc' = [pc EXCEPT ![c] = "got_value"]
    /\ value' = [value EXCEPT ![c] = get_value(service[c], cache)]
    /\ last' = NoCall
    /\ UNCHANGED <<service, cache, expire, age, win, gone, hits, raced, slow,
                   recent, allowed>>

\* hit, third cache call: cache.set::<u32>(&key, 1 or v + 1, expire)
HitSet(c) ==
    LET k == key(service[c]) IN
    /\ pc[c] = "got_value"
    /\ cache' = CacheSet(cache, k, hit_value(value[c]), expire[c])
    /\ pc' = [pc EXCEPT ![c] = "idle"]
    /\ expire' = [expire EXCEPT ![c] = 0]
    /\ value' = [value EXCEPT ![c] = None]
    /\ age' = IF Present(cache, k) THEN age ELSE [age EXCEPT ![k] = 0]
    /\ win' = IF Present(cache, k) THEN win ELSE [win EXCEPT ![k] = service[c].period]
    /\ gone' = [gone EXCEPT ![k] = NoneGone]
    /\ hits' = [hits EXCEPT ![c] = IF @ < 0 THEN @ ELSE @ + 1]
    /\ last' = [who |-> c, op |-> "hit", val |-> Some(expire[c])]
    /\ UNCHANGED <<service, raced, slow, recent, allowed>>

\* hit, third cache call, when cache.set returns Err: unwrap ends the call; the
\* cache holds whatever the failed set left
HitSetErr(c) ==
    LET k == key(service[c])
        out == unwrap("Err")
    IN
    \E after \in CacheSetErr(cache, k, hit_value(value[c]), expire[c]) :
        LET wrote == after # cache IN
        /\ pc[c] = "got_value"
        /\ cache' = after
        /\ pc' = [pc EXCEPT ![c] = "idle"]
        /\ expire' = [expire EXCEPT ![c] = 0]
        /\ value' = [value EXCEPT ![c] = None]
        /\ age' = IF wrote /\ ~Present(cache, k) THEN [age EXCEPT ![k] = 0] ELSE age
        /\ win' = IF wrote /\ ~Present(cache, k)
                  THEN [win EXCEPT ![k] = service[c].period] ELSE win
        /\ gone' = IF wrote THEN [gone EXCEPT ![k] = NoneGone] ELSE gone
        /\ hits' = IF wrote THEN [hits EXCEPT ![c] = -1] ELSE hits
        /\ last' = IF out = "panicked"
                   THEN [who |-> c, op |-> "hit_panic", val |-> None]
                   ELSE [who |-> c, op |-> "hit", val |-> Some(expire[c])]
        /\ UNCHANGED <<service, raced, slow, recent, allowed>>

\* service.remove(&cache)
Remove(c) ==
    LET k == key(service[c]) IN
    /\ pc[c] = "idle"
    /\ cache' = remove(service[c], cache)
    /\ age' = [age EXCEPT ![k] = 0]
    /\ win' = [win EXCEPT ![k] = 0]
    /\ gone' = [gone EXCEPT ![k] = NoneGone]
    /\ hits' = [d \in Callers |->
                  IF key(service[d]) # k THEN hits[d]
                  ELSE IF OthersInHit(c, k) # {} THEN -1 ELSE 0]
    /\ raced' = (raced \/ OthersBusy(c, k) # {})
    /\ last' = [who |-> c, op |-> "remove", val |-> Some(StoredCount(k))]
    /\ UNCHANGED <<service, pc, expire, value, slow, recent, allowed>>

\* service.remove(&cache) when cache.remove returns Err: unwrap ends the call;
\* the cache holds whatever the failed remove left
RemoveErr(c) ==
    LET k == key(service[c])
        out == unwrap("Err")
    IN
    \E after \in CacheRemoveErr(cache, k) :
        LET removed == after # cache IN
        /\ pc[c] = "idle"
        /\ cache' = after
        /\ age' = IF removed THEN [age EXCEPT ![k] = 0] ELSE age
        /\ win' = IF removed THEN [win EXCEPT ![k] = 0] ELSE win
        /\ gone' = IF removed THEN [gone EXCEPT ![k] = NoneGone] ELSE gone
        /\ hits' = IF ~removed THEN hits
                   ELSE [d \in Callers |->
                           IF key(service[d]) # k THEN hits[d]
                           ELSE IF OthersInHit(c, k) # {} THEN -1 ELSE 0]
        /\ raced' = (raced \/ (removed /\ OthersBusy(c, k) # {}))
        /\ last' = IF out = "panicked"
                   THEN [who |-> c, op |-> "remove_panic", val |-> None]
                   ELSE [who |-> c, op |-> "remove", val |-> Some(StoredCount(k))]
        /\ UNCHANGED <<service, pc, expire, value, slow, recent, allowed>>

\* the clock advances by one tick (a tick that finds no entry and no counted
\* hit changes nothing, and is left out)
Tick ==
    LET expired(k) == Present(cache, k) /\ ~Present(cache', k) IN
    /\ \/ \E k \in Keys : Present(cache, k)
       \/ SumSeq(recent) > 0
    /\ cache' = CacheTick(cache)
    /\ age' = [k \in Keys |-> IF Present(cache', k) THEN age[k] + 1 ELSE 0]
    /\ win' = [k \in Keys |-> IF Present(cache', k) THEN win[k] ELSE 0]
    /\ gone' = [k \in Keys |->
                  IF expired(k)
                  THEN [value |-> cache[k].value, age |-> age[k] + 1]
                  ELSE gone[k]]
    /\ hits' = [c \in Callers |->
                  IF ~expired(key(service[c])) THEN hits[c]
                  ELSE IF AnyInHit(key(service[c])) # {} THEN -1 ELSE 0]
    /\ slow' = (slow \/ \E c \in Callers : InHit(c))
    /\ recent' = IF recent = <<>> THEN recent
                 ELSE <<0>> \o SubSeq(recent, 1, Len(recent) - 1)
    /\ last' = NoCall
    /\ UNCHANGED <<service, pc, expire, value, raced, allowed>>

\* what one caller may do next while the cache's writes and deletes succeed
Step(c) ==
    \/ CanGo(c)
    \/ GetExpire(c)
    \/ HitGetExpire(c)
    \/ HitGetValue(c)
    \/ HitSet(c)
    \/ Remove(c)

\* what one caller may do next when the cache's writes and deletes may fail
StepOrFail(c) ==
    \/ Step(c)
    \/ HitSetErr(c)
    \/ RemoveErr(c)

\* any number of callers, their cache calls interleaved in any order, over a
\* cache whose writes and deletes succeed
Next == (\E c \in Callers : Step(c)) \/ Tick

Spec == Init /\ [][Next]_vars

\* one caller alone, over a cache whose writes and deletes may fail
NextOne == StepOrFail("c1") \/ Tick

SpecOne == Init /\ [][NextOne]_vars

\* one caller alone that begins a hit only when its last can_go returned true
\* and it has not hit since, as in the crate's example, with windows of up to
\* MaxPeriod + 1 ticks; the clock may tick between the can_go and the hit; the
\* hits of the last `period` instants are counted
ClientServices ==
    {[c \in Callers |-> new(f[c].ip, f[c].max_attempts, p, f[c].prefix)] :
        f \in Services, p \in 1..(MaxPeriod + 1)}

InitClient ==
    \E srv \in ClientServices :
        InitBut(srv, [i \in 1..srv["c1"].period |-> 0], {})

GuardedHit(c) ==
    /\ c \in allowed
    /\ HitGetExpire(c)

NextClient ==
    \/ CanGo("c1")
    \/ GetExpire("c1")
    \/ GuardedHit("c1")
    \/ HitGetValue("c1")
    \/ HitSet("c1")
    \/ Tick

SpecClient == InitClient /\ [][NextClient]_vars

\* two callers on one key, each beginning a hit only when its own last can_go
\* returned true and it has not hit since; the other caller and the clock may
\* act between the can_go and the hit
NextClients ==
    \/ \E c \in Callers :
          \/ CanGo(c)
          \/ GetExpire(c)
          \/ GuardedHit(c)
          \/ HitGetValue(c)
          \/ HitSet(c)
          \/ Remove(c)
    \/ Tick

InitClients == \E srv \in Services : InitBut(srv, <<>>, {})

SpecClients == InitClients /\ [][NextClients]_vars

\* two callers that throttle different keys with one limit and one window: c1
\* throttles ip "ab" under the empty prefix, c2 either ip "b" under the empty
\* prefix or ip "ab" under the prefix "a"
ServicesApart ==
    {f \in [Callers -> ThrottlesService] :
        /\ f["c1"] = new(<<"a", "b">>, f["c1"].max_attempts, f["c1"].period, <<>>)
        /\ f["c1"].max_attempts = MaxLimit
        /\ f["c2"].max_attempts = MaxLimit
        /\ f["c2"].period = f["c1"].period
        /\ \/ f["c2"].ip = <<"b">> /\ f["c2"].prefix = <<>>
           \/ f["c2"].ip = <<"a", "b">> /\ f["c2"].prefix = <<"a">>}

InitKeys == \E srv \in ServicesApart : InitBut(srv, <<>>, Untracked)

NextKeys ==
    \/ CanGo("c1")
    \/ \E c \in Callers :
          HitGetExpire(c) \/ HitGetValue(c) \/ HitSet(c) \/ Remove(c)
    \/ Tick

SpecKeys == InitKeys /\ [][NextKeys]_vars

\* ----------------------------------------------------------------- claims
Key(c) == key(service[c])

\* the cache key of a caller's Throttle: key_prefix concatenated with identity
KeyOf(c) == service[c].prefix \o service[c].ip

Limit(c) == service[c].max_attempts

Returned(c, op, x) == last = [who |-> c, op |-> op, val |-> Some(x)]

\* C1: whenever can_go returns, it returns false exactly when the count stored
\* for the caller's key is at least the limit, an absent entry counting as 0.
C1_CanGoIffBelowLimit ==
    [][\A c \in Callers :
          CanGo(c) => (last'.val = Some(FALSE) <=> StoredCount(Key(c)) >= Limit(c))]_vars

\* can_go has returned false on an entry that hits raised to the limit
C1_Witness ==
    \E c \in Callers :
        /\ Returned(c, "can_go", FALSE)
        /\ Limit(c) >= 1
        /\ Present(cache, Key(c))
        /\ cache[Key(c)].value = Limit(c)

\* C2: after n hits on a key made one after another, by any of the services
\* that share the key, with no expiry and no remove since the key was absent,
\* the stored count is n.
C2_CountIsNumberOfHits ==
    \A k \in Keys :
        (~raced /\ ~Tainted(k)) => StoredCount(k) = SumHits(k, Callers)

\* two different services with one key have hit it, three times in all, in one
\* window
C2_Witness ==
    /\ ~raced
    /\ service["c1"] # service["c2"]
    /\ Key("c1") = Key("c2")
    /\ hits["c1"] >= 1
    /\ hits["c2"] >= 1
    /\ hits["c1"] + hits["c2"] = 3
    /\ StoredCount(Key("c1")) = 3

\* C5: remove leaves the key as a key never hit: the lookup finds nothing,
\* can_go is (0 < limit), get_expire is the window and a hit would write count 1
\* with the window as time-to-live; on an absent key it changes nothing.
C5_RemoveIsNeverHit ==
    [][\A c \in Callers :
          Remove(c) =>
            /\ cache'[Key(c)] = NoEntry
            /\ get_value(service[c], cache') = None
            /\ can_go(service[c], cache') = (0 < Limit(c))
            /\ get_expire(service[c], cache') = service[c].period
            /\ hit_value(get_value(service[c], cache')) = 1
            /\ (~Present(cache, Key(c)) => cache' = cache)]_vars

\* remove has deleted an entry that held a count of at least 2
C5_Witness ==
    \E c \in Callers :
        /\ last.who = c
        /\ last.op = "remove"
        /\ last.val[1] >= 2
        /\ ~Present(cache, Key(c))

\* C6: for a key with no entry and a limit of at least 1, can_go returns true.
C6_NeverHitCanGo ==
    [][\A c \in Callers :
          (CanGo(c) /\ ~Present(cache, Key(c)) /\ Limit(c) >= 1)
            => last'.val = Some(TRUE)]_vars

\* can_go has returned true for a key nobody has hit
C6_Witness ==
    \E c \in Callers :
        /\ Returned(c, "can_go", TRUE)
        /\ Limit(c) >= 1
        /\ ~Present(cache, Key(c))
        /\ \A d \in Callers : hits[d] = 0 /\ pc[d] = "idle"
        /\ gone[Key(c)] = NoneGone

\* C7: get_expire returns the window when the cache reports no expiry for the
\* key, and otherwise the remaining time-to-live the cache reports.
C7_GetExpire ==
    [][\A c \in Callers :
          GetExpire(c) =>
            last'.val = Some(IF cache[Key(c)].ttl = 0 THEN service[c].period
                             ELSE cache[Key(c)].ttl)]_vars

\* get_expire has returned a remaining time-to-live shorter than the window
C7_Witness ==
    \E c \in Callers :
        /\ last.who = c
        /\ last.op = "get_expire"
        /\ Present(cache, Key(c))
        /\ last.val[1] = cache[Key(c)].ttl
        /\ last.val[1] < service[c].period

\* C3 as claimed: for the hits of one caller, the entry expires exactly one
\* window after the hit that created it.
C3_ExpiresOneWindowAfterCreation ==
    \A k \in Keys : Present(cache, k) => age[k] + cache[k].ttl = win[k]

\* C3, amended: a hit on an existing entry writes the remaining time-to-live it
\* read; as long as the clock has not ticked inside a hit, the entry of one
\* caller expires exactly one window after the hit that created it.
C3_AnchoredWhenHitsAreInstant ==
    ~slow => \A k \in Keys : Present(cache, k) => age[k] + cache[k].ttl = win[k]

\* a second hit has written the remaining time-to-live, 1, of an entry one
\* tick old whose window is 2
C3_Witness ==
    /\ ~slow
    /\ Returned("c1", "hit", 1)
    /\ hits["c1"] >= 2
    /\ Present(cache, Key("c1"))
    /\ age[Key("c1")] = 1
    /\ win[Key("c1")] = 2
    /\ cache[Key("c1")] = [value |-> hits["c1"], ttl |-> 1]

\* C4 as claimed: a blocked key is no longer blocked once the window started by
\* its first hit has elapsed, whatever hits were made meanwhile.
C4_BlockedUntilWindowElapsed ==
    \A c \in Callers :
        (Limit(c) >= 1 /\ StoredCount(Key(c)) >= Limit(c))
            => age[Key(c)] < win[Key(c)]

\* C4, amended: as long as the clock has not ticked inside a hit, an entry is
\* absent once the window started by its first hit has elapsed, and can_go is
\* then true for a limit of at least 1.
C4_AllowedAgainWhenHitsAreInstant ==
    ~slow =>
        \A c \in Callers :
            Limit(c) >= 1 =>
                IF Present(cache, Key(c))
                THEN age[Key(c)] + cache[Key(c)].ttl <= win[Key(c)]
                ELSE can_go(service[c], cache)

\* can_go has returned true after the expiry, one window after its creation, of
\* an entry that hits had raised past the limit
C4_Witness ==
    \E c \in Callers :
        /\ ~slow
        /\ Returned(c, "can_go", TRUE)
        /\ Limit(c) >= 1
        /\ ~Present(cache, Key(c))
        /\ gone[Key(c)].value > Limit(c)
        /\ gone[Key(c)].age = service[c].period

\* C8 as claimed: whatever the callers do, a count never decreases while its
\* entry stays in the cache.
C8_NeverDecreases ==
    [][\A k \in Keys :
          (Present(cache, k) /\ Present(cache', k))
            => cache'[k].value >= cache[k].value]_vars

\* C8, amended: as long as no hit has overlapped another caller's hit or
\* remove, a count never decreases while its entry stays in the cache.
C8_NeverDecreasesWhenSequential ==
    [][~raced =>
          \A k \in Keys :
              (Present(cache, k) /\ Present(cache', k))
                => cache'[k].value >= cache[k].value]_vars

\* sequential hits of both callers have raised a count over several ticks
C8_Witness ==
    \E c \in Callers :
        /\ ~raced
        /\ last.who = c
        /\ last.op = "hit"
        /\ age[Key(c)] >= 1
        /\ \A d \in Callers : hits[d] >= 1
        /\ StoredCount(Key(c)) = SumHits(Key(c), Callers)

\* C9: completed hits can be lost but never invented: with no expiry or remove
\* since the key was absent, the count is at most the number of completed hits
\* and at least 1 once a hit has completed.
C9_CountAtMostHits ==
    \A k \in Keys :
        ~Tainted(k) =>
            /\ StoredCount(k) <= SumHits(k, Callers)
            /\ (SumHits(k, Callers) >= 1 => StoredCount(k) >= 1)

\* the lost update: both callers have completed hits on one key, three in all,
\* with no tick, expiry or remove since the key was absent, and the count is 2
C9_LostUpdate ==
    /\ Key("c1") = Key("c2")
    /\ age[Key("c1")] = 0
    /\ ~slow
    /\ pc["c1"] = "idle"
    /\ pc["c2"] = "idle"
    /\ hits["c1"] >= 1
    /\ hits["c2"] >= 1
    /\ hits["c1"] + hits["c2"] = 3
    /\ StoredCount(Key("c1")) = 2

\* C10: a caller that hits only after can_go returned true makes at most
\* 2 * limit - 1 hits in any interval shorter than the window.
C10_BurstBound ==
    (recent # <<>> /\ Limit("c1") >= 1) => SumSeq(recent) <= 2 * Limit("c1") - 1

\* the same bound as long as the clock has not ticked inside a hit
C10_BurstBoundWhenHitsAreInstant ==
    (recent # <<>> /\ Limit("c1") >= 1 /\ ~slow)
        => SumSeq(recent) <= 2 * Limit("c1") - 1

\* 2 * limit - 1 hits, with instantaneous hits, across a window boundary
C10_BurstReached ==
    /\ recent # <<>>
    /\ ~slow
    /\ Limit("c1") = 2
    /\ SumSeq(recent) = 3

\* C11 as claimed: with limit 0, can_go returns true before the first hit on
\* the key and false once a hit exists.
C11_ZeroLimitAllowedBeforeFirstHit ==
    [][\A c \in Callers :
          (CanGo(c) /\ Limit(c) = 0)
            => (last'.val = Some(TRUE) <=> ~Present(cache, Key(c)))]_vars

\* C11, amended: with limit 0, can_go returns false, before the first hit on
\* the key (0 < 0 is false) as well as once a hit exists.
C11_ZeroLimitNeverAllowed ==
    [][\A c \in Callers :
          (CanGo(c) /\ Limit(c) = 0) => last'.val = Some(FALSE)]_vars

\* with limit 0, can_go has returned false for a key nobody has hit
C11_Witness ==
    \E c \in Callers :
        /\ Limit(c) = 0
        /\ Returned(c, "can_go", FALSE)
        /\ ~Present(cache, Key(c))
        /\ \A d \in Callers : hits[d] = 0 /\ pc[d] = "idle"
        /\ gone[Key(c)] = NoneGone
        /\ age[Key(c)] = 0

\* with limit 0, can_go has returned false for a key that a hit has created
C11_WitnessAfterHit ==
    \E c \in Callers :
        /\ Limit(c) = 0
        /\ Returned(c, "can_go", FALSE)
        /\ Present(cache, Key(c))
        /\ hits[c] >= 1

C12_Witness ==
    \E c \in Callers :
        /\ last = [who |-> c, op |-> "hit_panic", val |-> None]
        /\ pc[c] = "idle"
        /\ hits[c] = 1
        /\ SumHits(Key(c), Callers) = 1
        /\ ~raced
        /\ cache[Key(c)].value = 1
        /\ cache[Key(c)].ttl >= 1

C12_WitnessRemove ==
    \E c \in Callers :
        /\ last = [who |-> c, op |-> "remove_panic", val |-> None]
        /\ Present(cache, Key(c))

\* C13: hit resets the expiration time: after any hit, on a new or an existing
\* entry, the entry's remaining time-to-live is the full period.
C13_HitResetsExpiration ==
    [][\A c \in Callers :
          HitSet(c) => cache'[Key(c)] = [value |-> hit_value(value[c]),
                                         ttl |-> service[c].period]]_vars

\* the cache with the entry of every key other than k replaced by e
WithOthers(k, e) == [j \in Keys |-> IF j = k THEN cache[j] ELSE e]

\* C14: a step of hit or remove through a Throttle with key k leaves the entry
\* of every other key as it was, and can_go for k returns what it would return
\* with any other entries under the other keys.
C14_KeysAreIndependent ==
    [][\A c \in Callers :
          /\ (HitSet(c) \/ Remove(c)) =>
                \A k \in Keys \ {KeyOf(c)} : cache'[k] = cache[k]
          /\ CanGo(c) =>
                \A e \in {NoEntry, [value |-> MaxCount, ttl |-> 1]} :
                    last'.val = Some(can_go(service[c], WithOthers(KeyOf(c), e)))]_vars

\* c1 has removed its entry while the key of c2, which differs from c1's by the
\* prefix only, keeps an entry that is one tick old and was hit twice
C14_Witness ==
    /\ Returned("c1", "remove", 1)
    /\ service["c1"].ip = service["c2"].ip
    /\ KeyOf("c1") # KeyOf("c2")
    /\ ~Present(cache, KeyOf("c1"))
    /\ Present(cache, KeyOf("c2"))
    /\ cache[KeyOf("c2")].value = 2
    /\ age[KeyOf("c2")] = 1

\* c1 is blocked and c2, on another key, is not
C14_WitnessCanGo ==
    /\ Returned("c1", "can_go", FALSE)
    /\ KeyOf("c1") # KeyOf("c2")
    /\ Present(cache, KeyOf("c2"))
    /\ can_go(service["c2"], cache)

\* C15: a can_go or get_expire call changes neither the cache nor the service,
\* so that can_go, get_expire and key give the same results after it as before,
\* and a can_go call that directly follows a can_go call of the same caller
\* returns the same value.
C15_ReadsChangeNothing ==
    [][\A c \in Callers :
          /\ (CanGo(c) \/ GetExpire(c)) =>
                /\ cache' = cache
                /\ service' = service
                /\ \A d \in Callers :
                      /\ can_go(service'[d], cache') = can_go(service[d], cache)
                      /\ get_expire(service'[d], cache') = get_expire(service[d], cache)
                      /\ key(service'[d]) = key(service[d])
          /\ (CanGo(c) /\ last.who = c /\ last.op = "can_go") => last'.val = last.val]_vars

\* can_go has returned true for an entry that is one tick from its expiry and
\* one hit below the limit: the call has neither counted nor renewed it
C15_Witness ==
    \E c \in Callers :
        /\ Returned(c, "can_go", TRUE)
        /\ Present(cache, Key(c))
        /\ cache[Key(c)].value = Limit(c) - 1
        /\ cache[Key(c)].ttl = 1
        /\ age[Key(c)] = service[c].period - 1
        /\ age[Key(c)] >= 1
        /\ hits[c] = cache[Key(c)].value

\* C16: whenever hit finds no count for the key and writes count 1, the
\* time-to-live it writes is the full window, whatever happened between its
\* read of the remaining expiry and its read of the count.
C16_FirstHitStartsFullWindow ==
    [][\A c \in Callers :
          (HitSet(c) /\ value[c] = None)
            => cache'[Key(c)] = [value |-> 1, ttl |-> service[c].period]]_vars

\* C17 as claimed: whatever the interleaving of the callers' hit steps with the
\* clock, an entry is never present a full window after the hit that created it.
C17_NeverOutlivesWindow ==
    \A k \in Keys : Present(cache, k) => age[k] < win[k]

\* C17, amended: as long as the clock has not ticked inside a hit, an entry is
\* never present a full window after the hit that created it, however the
\* callers' hit steps interleave.
C17_NeverOutlivesWindowWhenHitsAreInstant ==
    ~slow => \A k \in Keys : Present(cache, k) => age[k] < win[k]

\* both callers have hit one key in overlapping calls, with no tick inside a
\* hit, and the entry, in the last tick of its window, has the time-to-live 1
C17_Witness ==
    /\ ~slow
    /\ raced
    /\ Key("c1") = Key("c2")
    /\ hits["c1"] >= 1
    /\ hits["c2"] >= 1
    /\ last.op = "hit"
    /\ Present(cache, Key("c1"))
    /\ win[Key("c1")] = MaxPeriod
    /\ age[Key("c1")] = win[Key("c1")] - 1
    /\ cache[Key("c1")].ttl = 1

\* C18: in every reachable state the entry of a key is absent, or holds a count
\* of at least 1 and a remaining time-to-live of at least 1 tick and at most
\* the window of the services on the key; a hit in progress holds such a
\* time-to-live too, and never a count of 0.
C18_AbsentOrActive ==
    /\ \A k \in Keys :
          \/ cache[k] = NoEntry
          \/ /\ cache[k].value >= 1
             /\ cache[k].ttl >= 1
             /\ \E c \in Callers : Key(c) = k
             /\ \A c \in Callers : Key(c) = k => cache[k].ttl <= service[c].period
    /\ \A c \in Callers :
          /\ pc[c] # "idle" => (expire[c] >= 1 /\ expire[c] <= service[c].period)
          /\ pc[c] = "got_value" => hit_value(value[c]) >= 1

\* an entry in the last tick of its window holds the count MaxCount - 1, and a
\* hit that has read both is about to write MaxCount with the time-to-live 1
C18_Witness ==
    \E c \in Callers :
        /\ pc[c] = "got_value"
        /\ value[c] = Some(MaxCount - 1)
        /\ expire[c] = 1
        /\ cache[Key(c)] = [value |-> MaxCount - 1, ttl |-> 1]
        /\ age[Key(c)] >= 1

\* C19: for one caller that begins a hit only when its last can_go returned
\* true and it has not hit since, the stored count never exceeds the limit, a hit in progress never
\* holds a count at or above the limit, and at most `limit` hits complete
\* between two moments at which the key is absent.
C19_GuardedCountAtMostLimit ==
    /\ StoredCount(Key("c1")) <= Limit("c1")
    /\ pc["c1"] = "got_value" => hit_value(value["c1"]) <= Limit("c1")
    /\ hits["c1"] <= Limit("c1")

\* the guarded caller has filled its window: `limit` hits, two or more, have
\* completed, the count is the limit and can_go has returned false
C19_Witness ==
    /\ recent # <<>>
    /\ Limit("c1") >= 2
    /\ hits["c1"] = Limit("c1")
    /\ StoredCount(Key("c1")) = Limit("c1")
    /\ Returned("c1", "can_go", FALSE)

\* a hit that no can_go preceded has raised the count past the limit
C19_UnguardedHitPassesLimit ==
    /\ Limit("c1") >= 1
    /\ Returned("c1", "hit", service["c1"].period)
    /\ StoredCount(Key("c1")) = Limit("c1") + 1
    /\ hits["c1"] = Limit("c1") + 1

\* C20 as claimed: with callers that each call hit only after their own can_go
\* returned true, at most `limit` hits complete on a key between two moments
\* at which the key is absent.
C20_AdmittedAtMostLimit ==
    \A c \in Callers :
        ~Tainted(Key(c)) => SumHits(Key(c), Callers) <= Limit(c)

\* C20, amended: the same, as long as no caller's can_go has returned true, and
\* no caller has begun a hit or called remove, while another caller was
\* between a can_go that returned true and the end of the hit that follows it.
C20_AdmittedAtMostLimitWhenSequential ==
    ~raced =>
        \A c \in Callers :
            ~Tainted(Key(c)) => SumHits(Key(c), Callers) <= Limit(c)

\* both callers have been admitted, one after the other, `limit` times in all,
\* and can_go has then returned false
C20_Witness ==
    \E c \in Callers :
        /\ ~raced
        /\ Key("c1") = Key("c2")
        /\ hits["c1"] >= 1
        /\ hits["c2"] >= 1
        /\ hits["c1"] + hits["c2"] = Limit(c)
        /\ StoredCount(Key(c)) = Limit(c)
        /\ Returned(c, "can_go", FALSE)

\* the check-then-act race: with limit 1 both callers have been admitted in
\* one window
C20_BothAdmitted ==
    /\ Limit("c1") = 1
    /\ hits["c1"] = 1
    /\ hits["c2"] = 1
    /\ age[Key("c1")] = 0
    /\ ~slow

====
